---- MODULE Spec2Model ----
(***************************************************************************)
(* Workflow registry, pipeline coordinator and status distributor of the   *)
(* research-paper summarization service.                                   *)
(*                                                                         *)
(* The service runs on one asyncio event loop, so every action below is    *)
(* the code a coroutine executes between two suspension points (an await   *)
(* of a sleep, of an agent call or of a websocket send).  Registry calls   *)
(* (create_workflow / update_workflow / get_workflow) are synchronous and  *)
(* therefore happen inside one action.                                     *)
(***************************************************************************)
EXTENDS Integers, Sequences, FiniteSets, TLC

\* ------------------------------------------------------------------ bounds
\* papers a first stage returns / files of one upload
MaxPapers == 2
\* messages one push stream forwards before the model stops it
MaxSent == 2
\* papers of a job whose loop progress is computed on its own
MaxTotal == 12

\* the workflow ids uuid4 hands out in one behaviour, in the order drawn
JobIds == {1}
\* id 0 is a well-formed id that no submission was given
Ids == {0} \cup JobIds
\* the ids of two submissions whose jobs run side by side
TwoJobIds == {1, 2}

QueryTexts == {"", "gnn"}
ErrorTexts == {"boom"}
ClassifierOutputs == {<<"ML">>, <<"NLP", "ML">>}
TopicHints == {<<>>, <<"hint">>}

VARIABLES workflows, history, clock, jobs, nextId, response, ws, pull, db, call

vars == <<workflows, history, clock, jobs, nextId, response, ws, pull, db, call>>

\* ------------------------------------------------------------ small helpers
Msg(text, n, err) == [text |-> text, n |-> n, err |-> err]

Terminal == {"completed", "failed"}
NonTerminal == {"pending", "processing"}

Last(s) == s[Len(s)]

\* dict.get(key, '') on a request whose values are strings
DictGet(d, key) == IF key \in DOMAIN d THEN d[key] ELSE ""

\* request.get('search_query') or request.get('query'); "" stands for a
\* falsy result (None or the empty string)
search_query_or_query(request) ==
    IF DictGet(request, "search_query") # "" THEN request["search_query"]
    ELSE DictGet(request, "query")

\* the dicts a search submission can carry
SearchRequests ==
    UNION {[D -> QueryTexts] : D \in SUBSET {"search_query", "query"}}

\* ------------------------------------------------------- WorkflowManager
\* create_workflow: a fresh dict replaces whatever was stored under the id
create_workflow(W, workflow_id, status, now) ==
    [x \in (DOMAIN W) \cup {workflow_id} |->
        IF x = workflow_id
        THEN [id |-> workflow_id, status |-> status, progress |-> 0,
              message |-> Msg("Workflow created", 0, ""), created_at |-> now]
        ELSE W[x]]

\* variant: the keywords replace the stored dict
update_workflow_replace(W, workflow_id, kwargs) ==
    IF workflow_id \in DOMAIN W
    THEN [W EXCEPT ![workflow_id] = kwargs]
    ELSE W

\* variant: the keywords go into every stored dict
update_workflow_every_record(W, workflow_id, kwargs) ==
    IF workflow_id \in DOMAIN W
    THEN [x \in DOMAIN W |-> kwargs @@ W[x]]
    ELSE W

\* update_workflow: dict.update(kwargs) on the stored dict, nothing when the
\* id is unknown
update_workflow(W, workflow_id, kwargs) ==
    IF workflow_id \in DOMAIN W
    THEN [W EXCEPT ![workflow_id] = kwargs @@ W[workflow_id]]
    ELSE W

\* variant: a finished workflow is no longer handed out
has_workflow_unfinished(W, workflow_id) ==
    workflow_id \in DOMAIN W /\ W[workflow_id].status \notin Terminal

\* get_workflow: dict.get(workflow_id); the second operator is the value, the
\* first tells a dict from None
has_workflow(W, workflow_id) == workflow_id \in DOMAIN W
get_workflow(W, workflow_id) == W[workflow_id]

\* The registry together with the log of the states every record went
\* through: one entry per create_workflow / update_workflow call on the id.
Reg(W, H) == [w |-> W, h |-> H]

Create(R, workflow_id, status, now) ==
    LET W2 == create_workflow(R.w, workflow_id, status, now)
    IN Reg(W2, [R.h EXCEPT ![workflow_id] = Append(@, W2[workflow_id])])

Update(R, workflow_id, kwargs) ==
    LET W2 == update_workflow(R.w, workflow_id, kwargs)
    IN IF workflow_id \in DOMAIN R.w
       THEN Reg(W2, [R.h EXCEPT ![workflow_id] = Append(@, W2[workflow_id])])
       ELSE R

Progress(text, n, p) == [message |-> Msg(text, n, ""), progress |-> p]

\* The persisted mirror.  What a call meets there: the database is not
\* available (DATABASE_AVAILABLE is False), the session works, or some
\* statement of the session raises.
DbOutcomes == {"unavailable", "ok", "error"}

\* the try block of create_workflow: a row is added and committed; a row
\* that is already there makes the commit raise, which leaves the table alone
db_create(D, workflow_id, status, outcome) ==
    IF outcome = "ok" /\ workflow_id \notin DOMAIN D
    THEN [x \in (DOMAIN D) \cup {workflow_id} |->
            IF x = workflow_id
            THEN [id |-> workflow_id, status |-> status, progress |-> 0,
                  message |-> Msg("Workflow created", 0, "")]
            ELSE D[x]]
    ELSE D

\* the try block of update_workflow: setattr for every keyword on the row,
\* if there is one
db_update(D, workflow_id, kwargs, outcome) ==
    IF outcome = "ok" /\ workflow_id \in DOMAIN D
    THEN [D EXCEPT ![workflow_id] = kwargs @@ D[workflow_id]]
    ELSE D

\* variant: an error of the session is not caught
db_raises_unguarded(outcome) == outcome = "error"

\* does the exception of a failing session leave the method?  Both try
\* blocks end in `except Exception`, which prints a warning
db_raises(outcome) == FALSE

\* WorkflowManager.create_workflow as a whole: memory, mirror, and whether
\* the call raised
create_workflow_call(W, D, workflow_id, status, now, outcome) ==
    [workflows |-> create_workflow(W, workflow_id, status, now),
     db |-> db_create(D, workflow_id, status, outcome),
     raised |-> db_raises(outcome)]

\* variant: an unknown id gets a record made of the keywords
update_workflow_call_upsert(W, D, workflow_id, kwargs, outcome) ==
    [workflows |-> IF workflow_id \in DOMAIN W
                   THEN update_workflow(W, workflow_id, kwargs)
                   ELSE [x \in (DOMAIN W) \cup {workflow_id} |->
                            IF x = workflow_id THEN kwargs ELSE W[x]],
     db |-> db_update(D, workflow_id, kwargs, outcome),
     raised |-> db_raises(outcome)]

\* WorkflowManager.update_workflow as a whole
update_workflow_call(W, D, workflow_id, kwargs, outcome) ==
    [workflows |-> update_workflow(W, workflow_id, kwargs),
     db |-> db_update(D, workflow_id, kwargs, outcome),
     raised |-> db_raises(outcome)]

\* ---------------------------------------------------------------- state
NoJob ==
    [kind |-> "none", pc |-> "idle", request |-> <<>>, papers |-> <<>>,
     i |-> 0, classification |-> <<>>, classifications |-> <<>>,
     summaries |-> <<>>, synthesis |-> [synthesis |-> "", paper_count |-> 0],
     audio_files |-> <<>>,
     calls |-> [first |-> 0, classification |-> 0, summarization |-> 0,
                synthesis |-> 0, audio |-> 0],
     outcome |-> "none", error |-> ""]

NoResponse == [code |-> 0, workflow_id |-> 0, status |-> ""]

NoCall == [op |-> "none", workflow_id |-> 0, kwargs |-> <<>>, outcome |-> "",
           raised |-> FALSE]

Init ==
    /\ workflows = <<>>
    /\ history = [x \in Ids \cup TwoJobIds |-> <<>>]
    /\ clock = 0
    /\ jobs = [j \in JobIds \cup TwoJobIds |-> NoJob]
    /\ nextId = 1
    /\ response = NoResponse
    /\ ws = [pc |-> "idle", id |-> 0, text |-> <<>>, sent |-> <<>>]
    /\ pull = [code |-> 0, id |-> 0, body |-> <<>>]
    /\ db = <<>>
    /\ call = NoCall

\* ------------------------------------------------------------------ agents
\* DiscoveryAgent.process: no query text gives no papers; otherwise the
\* papers ArXiv returned (topics empty) or, when the search raised, one
\* synthetic fallback paper
ArxivPapers(n) == [k \in 1..n |-> [id |-> k, topics |-> <<>>, doi |-> "arXiv"]]

discovery_process(query) ==
    IF DictGet(query, "search_query") = ""
    THEN {<<>>}
    ELSE {ArxivPapers(n) : n \in 0..MaxPapers}
         \cup {<<[id |-> 1, topics |-> <<"AI">>, doi |-> "fallback"]>>}

\* ExtractionAgent.process: one paper per file except the files whose
\* extraction returned None; every paper starts with the topic hints
extraction_process(paper_input) ==
    {LET kept == SelectSeq(paper_input.file_paths, LAMBDA f : f \in K)
     IN [k \in 1..Len(kept) |->
            [id |-> kept[k], topics |-> paper_input.topics, doi |-> ""]] :
     K \in SUBSET {paper_input.file_paths[k] : k \in 1..Len(paper_input.file_paths)}}

\* SummarizationAgent.process: the summary echoes the paper's topics as they
\* are when the call is made
summarization_process(paper) == [paper_id |-> paper.id, topics |-> paper.topics]

\* SynthesisAgent._analyze_topics: the distinct topics over all
\* classifications, and for every key f"{topic1}_{topic2}" (here the pair
\* <<topic1, topic2>>) the number of times topic1 stands before topic2 in a
\* classification
cooccurrences(classifications) ==
    {o \in (DOMAIN classifications) \X (1..4) \X (1..4) :
        o[2] < o[3] /\ o[3] <= Len(classifications[o[1]])}

pair_key(classifications, o) ==
    <<classifications[o[1]][o[2]], classifications[o[1]][o[3]]>>

_analyze_topics(classifications) ==
    [total_unique_topics |->
        Cardinality(UNION {{c[t] : t \in 1..Len(c)} :
            c \in {classifications[k] : k \in 1..Len(classifications)}}),
     topic_cooccurrence |->
        LET occ == cooccurrences(classifications)
        IN [key \in {pair_key(classifications, o) : o \in occ} |->
               Cardinality({o \in occ : pair_key(classifications, o) = key})]]

\* variant: no branch for the empty list
synthesis_process_no_guard(classified_papers) ==
    [synthesis |-> "This synthesis analyzes ...",
     topic_analysis |-> _analyze_topics(classified_papers.classifications),
     paper_count |-> Len(classified_papers.papers)]

\* SynthesisAgent.process
synthesis_process(classified_papers) ==
    IF classified_papers.papers = <<>>
    THEN [synthesis |-> "No papers available for synthesis.",
          topic_analysis |-> <<>>, paper_count |-> 0]
    ELSE [synthesis |-> "This synthesis analyzes ...",
          topic_analysis |-> _analyze_topics(classified_papers.classifications),
          paper_count |-> Len(classified_papers.papers)]

\* AudioAgent.process: an audio file, a placeholder text file, or nothing
\* when the rendering helper swallowed its error
AudioResults == {<<"audio/synthesis.mp3">>, <<"audio/synthesis.txt">>, <<>>}

\* audio/file.mp3 -> /audio/file.mp3
audio_url(audio_file) ==
    CASE audio_file = "audio/synthesis.mp3" -> "/audio/synthesis.mp3"
      [] audio_file = "audio/synthesis.txt" -> "/audio/synthesis.txt"
      [] OTHER -> audio_file

\* ------------------------------------------------------------ submissions
\* process_search_request: validate, draw an id, schedule the background task
SubmitSearch(request) ==
    /\ IF search_query_or_query(request) = ""
       THEN \* HTTPException(400), re-raised as a 500 by the outer handler
            /\ response' = [code |-> 500, workflow_id |-> 0, status |-> ""]
            /\ UNCHANGED <<jobs, nextId>>
       ELSE /\ nextId \in JobIds
            /\ jobs' = [jobs EXCEPT ![nextId] =
                    [NoJob EXCEPT !.kind = "search", !.pc = "queued",
                                  !.request = request]]
            /\ response' = [code |-> 200, workflow_id |-> nextId,
                            status |-> "processing"]
            /\ nextId' = nextId + 1
    /\ UNCHANGED <<workflows, history, clock, ws, pull, db, call>>

\* process_upload_request: save the files, draw an id, schedule the task
SubmitUpload(nfiles, topics) ==
    /\ nextId \in JobIds
    /\ jobs' = [jobs EXCEPT ![nextId] =
            [NoJob EXCEPT !.kind = "upload", !.pc = "queued",
                          !.request = [file_paths |-> [k \in 1..nfiles |-> k],
                                       topics |-> topics]]]
    /\ response' = [code |-> 200, workflow_id |-> nextId, status |-> "processing"]
    /\ nextId' = nextId + 1
    /\ UNCHANGED <<workflows, history, clock, ws, pull, db, call>>

\* process_upload_request for an upload of one file, submitted before or
\* while the job of another submission runs
SubmitUploadOfTwo(topics) ==
    /\ nextId \in TwoJobIds
    /\ jobs' = [jobs EXCEPT ![nextId] =
            [NoJob EXCEPT !.kind = "upload", !.pc = "queued",
                          !.request = [file_paths |-> <<1>>, topics |-> topics]]]
    /\ response' = [code |-> 200, workflow_id |-> nextId, status |-> "processing"]
    /\ nextId' = nextId + 1
    /\ UNCHANGED <<workflows, history, clock, ws, pull, db, call>>

\* --------------------------------------------- background jobs (routes.py)
\* progress milestones and status lines of the two flows
Milestone(kind) ==
    IF kind = "search"
    THEN [start |-> 20, found |-> 30, analysis |-> 35, base |-> 35,
          synth |-> 75, synthdone |-> 85, audio |-> 90, audiodone |-> 95,
          final |-> 98,
          start_msg |-> "Searching ArXiv database...",
          found_msg |-> "Found {n} papers",
          empty_msg |-> "No papers found",
          analysis_msg |-> "Starting paper analysis...",
          loop_msg |-> "Analyzing paper {n}/{total}",
          synth_msg |-> "Synthesizing findings across papers...",
          done_msg |-> "Processing completed successfully!",
          failed_msg |-> "Processing failed: {err}"]
    ELSE [start |-> 10, found |-> 25, analysis |-> 30, base |-> 30,
          synth |-> 70, synthdone |-> 80, audio |-> 85, audiodone |-> 95,
          final |-> 98,
          start_msg |-> "Processing uploaded files...",
          found_msg |-> "Extracted content from {n} files",
          empty_msg |-> "No content could be extracted from uploaded files",
          analysis_msg |-> "Starting document analysis...",
          loop_msg |-> "Analyzing document {n}/{total}",
          synth_msg |-> "Synthesizing findings across documents...",
          done_msg |-> "Upload processing completed successfully!",
          failed_msg |-> "Upload processing failed: {err}"]

\* variant: the interpolation counts the papers still to do
paper_progress_remaining(kind, i, total_papers) ==
    Milestone(kind).base + (((total_papers - i) * 35) \div total_papers)

\* variant: the interpolation counts the paper being analysed as done
paper_progress_inclusive(kind, i, total_papers) ==
    Milestone(kind).base + (((i + 1) * 35) \div total_papers)

\* base + int((i / total_papers) * 35)
paper_progress(kind, i, total_papers) ==
    Milestone(kind).base + ((i * 35) \div total_papers)

\* if 'query' in request and 'search_query' not in request
normalize(request) ==
    IF "query" \in DOMAIN request /\ "search_query" \notin DOMAIN request
    THEN [x \in (DOMAIN request) \cup {"search_query"} |->
             IF x = "search_query" THEN request["query"] ELSE request[x]]
    ELSE request

\* variant: the short-circuit payload carries no narrative
empty_result_no_narrative(kind) ==
    [papers |-> <<>>, papers_processed |-> 0, classifications |-> <<>>,
     summaries |-> <<>>, synthesis |-> [synthesis |-> "", paper_count |-> 0],
     audio_files |-> <<>>, status |-> "completed"]

empty_result(kind) ==
    [papers |-> <<>>, papers_processed |-> 0, classifications |-> <<>>,
     summaries |-> <<>>,
     synthesis |-> [synthesis |-> IF kind = "search"
                        THEN "No papers found for the search query"
                        ELSE "No content could be extracted from uploaded files",
                    paper_count |-> 0],
     audio_files |-> <<>>, status |-> "completed"]

full_result(workflow_id, J, audio_files) ==
    [workflow_id |-> workflow_id,
     papers |-> [k \in 1..Len(J.papers) |->
                    [id |-> J.papers[k].id, doi |-> J.papers[k].doi,
                     topics |-> J.papers[k].topics]],
     papers_processed |-> Len(J.papers),
     summaries |-> J.summaries,
     classifications |-> J.classifications,
     synthesis |-> J.synthesis,
     audio_files |-> [k \in 1..Len(audio_files) |-> audio_url(audio_files[k])],
     status |-> "completed"]

\* variant: the terminal update leaves the progress where it was
completed_update_keeps_progress(text, results) ==
    [status |-> "completed", message |-> Msg(text, 0, ""), results |-> results]

\* status="completed", progress=100.0, message=..., results=result
completed_update(text, results) ==
    [status |-> "completed", progress |-> 100, message |-> Msg(text, 0, ""),
     results |-> results]

\* variant: the handler records the error but leaves the status alone
failed_update_no_status(kind, workflow_id, e) ==
    [message |-> Msg(Milestone(kind).failed_msg, 0, e), progress |-> 0,
     results |-> [workflow_id |-> workflow_id, error |-> e, status |-> "failed"]]

\* the except branch of a background job
failed_update(kind, workflow_id, e) ==
    [status |-> "failed", message |-> Msg(Milestone(kind).failed_msg, 0, e),
     progress |-> 0,
     results |-> [workflow_id |-> workflow_id, error |-> e, status |-> "failed"]]

IsBg(j) == jobs[j].kind \in {"search", "upload"}

SetReg(R) == workflows' = R.w /\ history' = R.h

Called(J, agent) == [J.calls EXCEPT ![agent] = @ + 1]

\* a stage raised: the handler records the failure and the task ends
BgFail(j, agent, e) ==
    /\ SetReg(Update(Reg(workflows, history), j, failed_update(jobs[j].kind, j, e)))
    /\ jobs' = [jobs EXCEPT ![j] = [jobs[j] EXCEPT !.pc = "done",
                   !.outcome = "returned", !.error = e,
                   !.calls = Called(jobs[j], agent)]]

\* task start up to the first sleep
BgStart(j) ==
    /\ IsBg(j) /\ jobs[j].pc = "queued"
    /\ LET J == jobs[j]
           R1 == Create(Reg(workflows, history), j, "processing", clock)
           R2 == Update(R1, j, Progress(Milestone(J.kind).start_msg, 0, Milestone(J.kind).start))
       IN /\ SetReg(R2)
          /\ jobs' = [jobs EXCEPT ![j] = [J EXCEPT !.pc = "first",
                         !.outcome = "running",
                         !.request = IF J.kind = "search"
                                     THEN normalize(J.request) ELSE J.request]]
    /\ clock' = clock + 1
    /\ UNCHANGED <<nextId, response, ws, pull, db, call>>

\* the Source / Extractor call and the milestone after it
BgFirstStage(j) ==
    /\ IsBg(j) /\ jobs[j].pc = "first"
    /\ LET J == jobs[j]
       IN \/ \E papers \in (IF J.kind = "search"
                            THEN discovery_process(J.request)
                            ELSE extraction_process(J.request)) :
               /\ SetReg(Update(Reg(workflows, history), j,
                         Progress(Milestone(J.kind).found_msg, Len(papers),
                                  Milestone(J.kind).found)))
               /\ jobs' = [jobs EXCEPT ![j] = [J EXCEPT !.pc = "branch",
                              !.papers = papers, !.calls = Called(J, "first")]]
          \/ \E e \in ErrorTexts : BgFail(j, "first", e)
    /\ UNCHANGED <<clock, nextId, response, ws, pull, db, call>>

\* if not papers: ... return; else the "starting analysis" milestone
BgBranch(j) ==
    /\ IsBg(j) /\ jobs[j].pc = "branch"
    /\ LET J == jobs[j]
       IN IF J.papers = <<>>
          THEN /\ SetReg(Update(Reg(workflows, history), j,
                         completed_update(Milestone(J.kind).empty_msg,
                                          empty_result(J.kind))))
               /\ jobs' = [jobs EXCEPT ![j] = [J EXCEPT !.pc = "done",
                              !.outcome = "returned"]]
          ELSE /\ SetReg(Update(Reg(workflows, history), j,
                         Progress(Milestone(J.kind).analysis_msg, 0,
                                  Milestone(J.kind).analysis)))
               /\ jobs' = [jobs EXCEPT ![j] = [J EXCEPT !.pc = "loop"]]
    /\ UNCHANGED <<clock, nextId, response, ws, pull, db, call>>

\* variant: the loop stops one paper early
more_papers_off_by_one(i, total_papers) == i + 2 < total_papers

\* for i, paper in enumerate(papers): is there an iteration after i?
more_papers(i, total_papers) == i + 1 < total_papers

\* first iteration of the per-paper loop up to its sleep
BgLoopEnter(j) ==
    /\ IsBg(j) /\ jobs[j].pc = "loop"
    /\ LET J == jobs[j]
       IN /\ SetReg(Update(Reg(workflows, history), j,
                    Progress(Milestone(J.kind).loop_msg, 1,
                             paper_progress(J.kind, 0, Len(J.papers)))))
          /\ jobs' = [jobs EXCEPT ![j] = [J EXCEPT !.pc = "classify", !.i = 0]]
    /\ UNCHANGED <<clock, nextId, response, ws, pull, db, call>>

\* classification = await agents['classification'].process(paper)
BgClassify(j) ==
    /\ IsBg(j) /\ jobs[j].pc = "classify"
    /\ LET J == jobs[j]
       IN \/ \E c \in ClassifierOutputs :
               /\ jobs' = [jobs EXCEPT ![j] = [J EXCEPT !.pc = "summarize",
                              !.classification = c,
                              !.calls = Called(J, "classification")]]
               /\ UNCHANGED <<workflows, history>>
          \/ \E e \in ErrorTexts : BgFail(j, "classification", e)
    /\ UNCHANGED <<clock, nextId, response, ws, pull, db, call>>

\* summary = await agents['summarization'].process(paper); both results are
\* appended, paper.topics is assigned, and the loop goes on or ends
BgSummarize(j) ==
    /\ IsBg(j) /\ jobs[j].pc = "summarize"
    /\ LET J == jobs[j]
           k == J.i + 1
           total == Len(J.papers)
           J2 == [J EXCEPT !.summaries = Append(@, summarization_process(J.papers[k])),
                           !.classifications = Append(@, J.classification),
                           !.papers[k].topics = J.classification,
                           !.calls = Called(J, "summarization")]
       IN \/ IF more_papers(J.i, total)
             THEN /\ SetReg(Update(Reg(workflows, history), j,
                            Progress(Milestone(J.kind).loop_msg, J.i + 2,
                                     paper_progress(J.kind, J.i + 1, total))))
                  /\ jobs' = [jobs EXCEPT ![j] = [J2 EXCEPT !.pc = "classify",
                                 !.i = J.i + 1]]
             ELSE /\ SetReg(Update(Reg(workflows, history), j,
                            Progress(Milestone(J.kind).synth_msg, 0,
                                     Milestone(J.kind).synth)))
                  /\ jobs' = [jobs EXCEPT ![j] = [J2 EXCEPT !.pc = "synthesize"]]
          \/ \E e \in ErrorTexts : BgFail(j, "summarization", e)
    /\ UNCHANGED <<clock, nextId, response, ws, pull, db, call>>

\* synthesis = await agents['synthesis'].process(synthesis_input); the upload
\* flow goes on to the audio milestone without suspending
BgSynthesize(j) ==
    /\ IsBg(j) /\ jobs[j].pc = "synthesize"
    /\ LET J == jobs[j]
           M == Milestone(J.kind)
           synthesis == synthesis_process([papers |-> J.papers,
                            classifications |-> J.classifications,
                            summaries |-> J.summaries])
           J2 == [J EXCEPT !.synthesis = synthesis, !.calls = Called(J, "synthesis")]
           R1 == Update(Reg(workflows, history), j,
                        Progress("Synthesis completed", 0, M.synthdone))
       IN \/ IF J.kind = "search"
             THEN /\ SetReg(R1)
                  /\ jobs' = [jobs EXCEPT ![j] = [J2 EXCEPT !.pc = "audio"]]
             ELSE /\ SetReg(Update(R1, j, Progress("Generating audio summary...", 0, M.audio)))
                  /\ jobs' = [jobs EXCEPT ![j] = [J2 EXCEPT !.pc = "narrate"]]
          \/ \E e \in ErrorTexts : BgFail(j, "synthesis", e)
    /\ UNCHANGED <<clock, nextId, response, ws, pull, db, call>>

\* search flow: the audio milestone between two sleeps
BgAudioMilestone(j) ==
    /\ jobs[j].kind = "search" /\ jobs[j].pc = "audio"
    /\ SetReg(Update(Reg(workflows, history), j,
              Progress("Generating audio summary...", 0,
                       Milestone("search").audio)))
    /\ jobs' = [jobs EXCEPT ![j] = [jobs[j] EXCEPT !.pc = "narrate"]]
    /\ UNCHANGED <<clock, nextId, response, ws, pull, db, call>>

\* variant: the terminal update is issued before the "finalizing" milestone
Finalize_late_milestone(R, j, J) ==
    LET R1 == Update(R, j, completed_update(Milestone(J.kind).done_msg,
                                            full_result(j, J, J.audio_files)))
    IN Update(R1, j, Progress("Finalizing results...", 0, Milestone(J.kind).final))

\* the "finalizing" milestone, the result payload and the terminal update
Finalize(R, j, J) ==
    LET R1 == Update(R, j, Progress("Finalizing results...", 0, Milestone(J.kind).final))
    IN Update(R1, j, completed_update(Milestone(J.kind).done_msg,
                                      full_result(j, J, J.audio_files)))

\* audio_files = await agents['audio'].process(synthesis); the upload flow
\* finishes in the same turn
BgNarrate(j) ==
    /\ IsBg(j) /\ jobs[j].pc = "narrate"
    /\ LET J == jobs[j]
       IN \/ \E audio_files \in AudioResults :
               LET J2 == [J EXCEPT !.audio_files = audio_files,
                                   !.calls = Called(J, "audio")]
                   R1 == Update(Reg(workflows, history), j,
                                Progress("Audio generation completed", 0,
                                         Milestone(J.kind).audiodone))
               IN IF J.kind = "search"
                  THEN /\ SetReg(R1)
                       /\ jobs' = [jobs EXCEPT ![j] = [J2 EXCEPT !.pc = "finalize"]]
                  ELSE /\ SetReg(Finalize(R1, j, J2))
                       /\ jobs' = [jobs EXCEPT ![j] = [J2 EXCEPT !.pc = "done",
                                      !.outcome = "returned"]]
          \/ \E e \in ErrorTexts : BgFail(j, "audio", e)
    /\ UNCHANGED <<clock, nextId, response, ws, pull, db, call>>

\* search flow: the last turn
BgFinalize(j) ==
    /\ jobs[j].kind = "search" /\ jobs[j].pc = "finalize"
    /\ SetReg(Finalize(Reg(workflows, history), j, jobs[j]))
    /\ jobs' = [jobs EXCEPT ![j] = [jobs[j] EXCEPT !.pc = "done",
                   !.outcome = "returned"]]
    /\ UNCHANGED <<clock, nextId, response, ws, pull, db, call>>

\* ------------------- process_research_request_with_workflow (orchestrator.py)
\* the upload requests of the model
UploadRequests ==
    {[file_paths |-> [k \in 1..n |-> k], topics |-> t] :
        n \in 1..MaxPapers, t \in TopicHints}

\* the branch process_research_request_with_workflow takes
OrchFlow(request) ==
    IF DictGet(request, "search_query") # "" THEN "search"
    ELSE IF "file_paths" \in DOMAIN request THEN "upload"
    ELSE "invalid"

\* the caller of the entry point draws an id and creates the workflow the
\* entry point is to track ("existing workflow")
OrchCreate(request) ==
    /\ nextId \in JobIds
    /\ SetReg(Create(Reg(workflows, history), nextId, "pending", clock))
    /\ clock' = clock + 1
    /\ jobs' = [jobs EXCEPT ![nextId] =
            [NoJob EXCEPT !.kind = "orch", !.pc = "enter", !.request = request]]
    /\ nextId' = nextId + 1
    /\ UNCHANGED <<response, ws, pull, db, call>>

\* the except branch of the entry point: record the failure, then re-raise
OrchFail(j, agent, e) ==
    /\ SetReg(Update(Reg(workflows, history), j,
              [status |-> "failed", progress |-> 0,
               message |-> Msg("Processing failed: {err}", 0, e)]))
    /\ jobs' = [jobs EXCEPT ![j] = [jobs[j] EXCEPT !.pc = "done",
                   !.outcome = "raised", !.error = e,
                   !.calls = IF agent = "none" THEN @ ELSE Called(jobs[j], agent)]]

\* entry up to the first agent call
OrchEnter(j) ==
    /\ jobs[j].kind = "orch" /\ jobs[j].pc = "enter"
    /\ IF OrchFlow(jobs[j].request) = "invalid"
       THEN OrchFail(j, "none", "Invalid request")
       ELSE /\ SetReg(Update(Reg(workflows, history), j,
                      Progress("Searching for papers / extracting content...", 0, 10)))
            /\ jobs' = [jobs EXCEPT ![j] = [jobs[j] EXCEPT !.pc = "first",
                           !.outcome = "running"]]
    /\ UNCHANGED <<clock, nextId, response, ws, pull, db, call>>

\* _process_search_request / _process_upload_request: the first stage; with
\* no papers the entry point returns a dict and writes nothing
OrchFirstStage(j) ==
    /\ jobs[j].kind = "orch" /\ jobs[j].pc = "first"
    /\ LET J == jobs[j]
       IN \/ \E papers \in (IF OrchFlow(J.request) = "search"
                            THEN discovery_process(J.request)
                            ELSE extraction_process(J.request)) :
               IF papers = <<>>
               THEN /\ jobs' = [jobs EXCEPT ![j] = [J EXCEPT !.pc = "done",
                                   !.outcome = "returned",
                                   !.calls = Called(J, "first")]]
                    /\ UNCHANGED <<workflows, history>>
               ELSE /\ SetReg(Update(Reg(workflows, history), j,
                              Progress("Classifying papers...", 0, 30)))
                    /\ jobs' = [jobs EXCEPT ![j] = [J EXCEPT !.pc = "classify",
                                   !.papers = papers, !.i = 0,
                                   !.calls = Called(J, "first")]]
          \/ \E e \in ErrorTexts : OrchFail(j, "first", e)
    /\ UNCHANGED <<clock, nextId, response, ws, pull, db, call>>

\* the classification loop: one paper per turn, topics assigned at once
OrchClassify(j) ==
    /\ jobs[j].kind = "orch" /\ jobs[j].pc = "classify"
    /\ LET J == jobs[j]
           k == J.i + 1
       IN \/ \E c \in ClassifierOutputs :
               LET J2 == [J EXCEPT !.classifications = Append(@, c),
                                   !.papers[k].topics = c,
                                   !.calls = Called(J, "classification")]
               IN IF k < Len(J.papers)
                  THEN /\ jobs' = [jobs EXCEPT ![j] = [J2 EXCEPT !.i = k]]
                       /\ UNCHANGED <<workflows, history>>
                  ELSE /\ SetReg(Update(Reg(workflows, history), j,
                                 Progress("Generating summaries...", 0, 60)))
                       /\ jobs' = [jobs EXCEPT ![j] = [J2 EXCEPT !.i = 0,
                                      !.pc = "summarize"]]
          \/ \E e \in ErrorTexts : OrchFail(j, "classification", e)
    /\ UNCHANGED <<clock, nextId, response, ws, pull, db, call>>

\* the summarization loop
OrchSummarize(j) ==
    /\ jobs[j].kind = "orch" /\ jobs[j].pc = "summarize"
    /\ LET J == jobs[j]
           k == J.i + 1
           J2 == [J EXCEPT !.summaries = Append(@, summarization_process(J.papers[k])),
                           !.calls = Called(J, "summarization")]
       IN \/ IF k < Len(J.papers)
             THEN /\ jobs' = [jobs EXCEPT ![j] = [J2 EXCEPT !.i = k]]
                  /\ UNCHANGED <<workflows, history>>
             ELSE /\ SetReg(Update(Reg(workflows, history), j,
                            Progress("Synthesizing findings...", 0, 80)))
                  /\ jobs' = [jobs EXCEPT ![j] = [J2 EXCEPT !.pc = "synthesize"]]
          \/ \E e \in ErrorTexts : OrchFail(j, "summarization", e)
    /\ UNCHANGED <<clock, nextId, response, ws, pull, db, call>>

OrchSynthesize(j) ==
    /\ jobs[j].kind = "orch" /\ jobs[j].pc = "synthesize"
    /\ LET J == jobs[j]
       IN \/ /\ SetReg(Update(Reg(workflows, history), j,
                       Progress("Generating audio...", 0, 90)))
             /\ jobs' = [jobs EXCEPT ![j] = [J EXCEPT !.pc = "narrate",
                            !.synthesis = synthesis_process([papers |-> J.papers,
                                classifications |-> J.classifications,
                                summaries |-> J.summaries]),
                            !.calls = Called(J, "synthesis")]]
          \/ \E e \in ErrorTexts : OrchFail(j, "synthesis", e)
    /\ UNCHANGED <<clock, nextId, response, ws, pull, db, call>>

\* the audio call; the entry point then returns the result dict to its caller
OrchNarrate(j) ==
    /\ jobs[j].kind = "orch" /\ jobs[j].pc = "narrate"
    /\ LET J == jobs[j]
       IN \/ \E audio_files \in AudioResults :
               jobs' = [jobs EXCEPT ![j] = [J EXCEPT !.pc = "done",
                           !.outcome = "returned", !.audio_files = audio_files,
                           !.calls = Called(J, "audio")]]
               /\ UNCHANGED <<workflows, history>>
          \/ \E e \in ErrorTexts : OrchFail(j, "audio", e)
    /\ UNCHANGED <<clock, nextId, response, ws, pull, db, call>>

\* ------------------------------------------------------ status distributor
\* A behaviour follows one status client, either the pull reader or the push
\* stream.  Both only read the registry, so what one of them is handed does
\* not depend on the other being there.

\* variant: a read leaves a mark on the record it returned
PullRead_marks_served(workflow_id) ==
    /\ ws.pc = "idle"
    /\ pull' = IF has_workflow(workflows, workflow_id)
               THEN [code |-> 200, id |-> workflow_id,
                     body |-> get_workflow(workflows, workflow_id)]
               ELSE [code |-> 404, id |-> workflow_id, body |-> <<>>]
    /\ workflows' = update_workflow(workflows, workflow_id, [served |-> TRUE])
    /\ UNCHANGED <<history, clock, jobs, nextId, response, ws, db, call>>

\* GET /status/{workflow_id}: the dict (or 404) as it is at the read
PullRead(workflow_id) ==
    /\ ws.pc = "idle"
    /\ pull' = IF has_workflow(workflows, workflow_id)
               THEN [code |-> 200, id |-> workflow_id,
                     body |-> get_workflow(workflows, workflow_id)]
               ELSE [code |-> 404, id |-> workflow_id, body |-> <<>>]
    /\ UNCHANGED <<workflows, history, clock, jobs, nextId, response, ws, db, call>>

\* websocket accept
WsConnect(workflow_id) ==
    /\ ws.pc = "idle" /\ pull.code = 0
    /\ ws' = [ws EXCEPT !.pc = "poll", !.id = workflow_id]
    /\ UNCHANGED <<workflows, history, clock, jobs, nextId, response, pull, db, call>>

\* json.dumps(status): the text is built from the dict before the send
\* suspends
json_dumps(status) == [kind |-> "snapshot", body |-> status]

\* loop head: read the registry and start sending
WsPoll ==
    /\ ws.pc = "poll" /\ Len(ws.sent) < MaxSent
    /\ ws' = [ws EXCEPT !.pc = "sending",
                 !.text = IF has_workflow(workflows, ws.id)
                          THEN json_dumps(get_workflow(workflows, ws.id))
                          ELSE [kind |-> "not_found", body |-> <<>>]]
    /\ UNCHANGED <<workflows, history, clock, jobs, nextId, response, pull, db, call>>

\* The except TypeError branch.  A dict the registry holds is made of
\* strings and numbers except for the results payload of a run with papers,
\* which is built from what the agents returned; json.dumps(status) raises
\* TypeError when an agent returned a value json cannot encode.  Then
\* json.dumps(results) raises as well and the results are simplified.

\* variant: the simplified results carry no count
safe_results_no_count(results) ==
    [status |-> "completed", papers_processed |-> 0,
     message |-> "Results available but simplified for WebSocket"]

safe_results(results) ==
    [status |-> "completed", papers_processed |-> Len(results.papers),
     message |-> "Results available but simplified for WebSocket"]

safe_status(status) ==
    LET base == [id |-> status.id, status |-> status.status,
                 progress |-> status.progress, message |-> status.message,
                 created_at |-> status.created_at]
    IN IF "results" \in DOMAIN status /\ status.status = "completed"
       THEN [results |-> safe_results(status.results)] @@ base
       ELSE base

\* loop head when json.dumps(status) raises TypeError: the safe status is
\* built and sent
WsPollTypeError ==
    /\ ws.pc = "poll" /\ Len(ws.sent) < MaxSent
    /\ has_workflow(workflows, ws.id)
    /\ LET status == get_workflow(workflows, ws.id)
       IN /\ "results" \in DOMAIN status
          /\ status.status = "completed"
          /\ status.results.papers_processed > 0
          /\ ws' = [ws EXCEPT !.pc = "sending",
                       !.text = [kind |-> "reduced", body |-> safe_status(status)]]
    /\ UNCHANGED <<workflows, history, clock, jobs, nextId, response, pull, db, call>>

\* variant: the progress is serialized when the send resumes
delivered_late_progress(text, live) ==
    [text EXCEPT !.body = [progress |-> live.progress] @@ text.body]

\* what the subscriber receives: the text handed to send_text
delivered(text, live) == text

\* what a reader that keeps the value get_workflow returned finds in it
\* later: dict.get hands out the stored dict itself and update_workflow
\* changes that dict in place, so the value is the record as it is then
status_held(W, workflow_id) == get_workflow(W, workflow_id)

\* `status` is the registry's own dict (get_workflow returns it, and
\* update_workflow changes it in place), so the test after the send reads
\* the record as it is then
status_after_send(W, workflow_id) == get_workflow(W, workflow_id).status

\* variant: the not-found branch does not break out of the loop
WsSent_no_break ==
    /\ ws.pc = "sending"
    /\ IF ws.text.kind = "not_found"
       THEN ws' = [ws EXCEPT !.pc = "sleep", !.sent = Append(@, ws.text)]
       ELSE ws' = [ws EXCEPT
                !.sent = Append(@, delivered(ws.text,
                                   get_workflow(workflows, ws.id))),
                !.pc = IF status_after_send(workflows, ws.id) \in Terminal
                       THEN "grace" ELSE "sleep"]
    /\ UNCHANGED <<workflows, history, clock, jobs, nextId, response, pull, db, call>>

\* the send returns: not found -> close; terminal -> grace sleep; else sleep
WsSent ==
    /\ ws.pc = "sending"
    /\ IF ws.text.kind = "not_found"
       THEN ws' = [ws EXCEPT !.pc = "closed", !.sent = Append(@, ws.text)]
       ELSE ws' = [ws EXCEPT
                !.sent = Append(@, delivered(ws.text,
                                   get_workflow(workflows, ws.id))),
                !.pc = IF status_after_send(workflows, ws.id) \in Terminal
                       THEN "grace" ELSE "sleep"]
    /\ UNCHANGED <<workflows, history, clock, jobs, nextId, response, pull, db, call>>

\* the grace sleep returns: break, close
WsGrace ==
    /\ ws.pc = "grace"
    /\ ws' = [ws EXCEPT !.pc = "closed"]
    /\ UNCHANGED <<workflows, history, clock, jobs, nextId, response, pull, db, call>>

\* the 1-second sleep returns: next iteration
WsSleep ==
    /\ ws.pc = "sleep"
    /\ ws' = [ws EXCEPT !.pc = "poll"]
    /\ UNCHANGED <<workflows, history, clock, jobs, nextId, response, pull, db, call>>

\* ------------------------------------------- the WorkflowManager on its own
\* The pipeline above reads nothing from the mirror and, as db_raises shows,
\* learns nothing of its failures, so its actions leave `db` out.  The actions
\* below call the two methods directly, with any id, any of the keyword sets
\* the code passes, and any outcome of the database session.
Times == {0, 1}

\* keyword sets the Coordinator passes to update_workflow
CoordinatorUpdates ==
    {Progress(Milestone("search").start_msg, 0, Milestone("search").start),
     Progress("Finalizing results...", 0, Milestone("upload").final),
     completed_update(Milestone("search").empty_msg, empty_result("search")),
     failed_update("upload", 1, "boom"),
     [status |-> "failed", progress |-> 0,
      message |-> Msg("Processing failed: {err}", 0, "boom")]}

RegCreate(workflow_id, status, now, outcome) ==
    LET r == create_workflow_call(workflows, db, workflow_id, status, now, outcome)
    IN /\ workflows' = r.workflows
       /\ db' = r.db
       /\ call' = [op |-> "create", workflow_id |-> workflow_id,
                   kwargs |-> [status |-> status], outcome |-> outcome,
                   raised |-> r.raised]
       /\ UNCHANGED <<history, clock, jobs, nextId, response, ws, pull>>

RegUpdate(workflow_id, kwargs, outcome) ==
    LET r == update_workflow_call(workflows, db, workflow_id, kwargs, outcome)
    IN /\ workflows' = r.workflows
       /\ db' = r.db
       /\ call' = [op |-> "update", workflow_id |-> workflow_id,
                   kwargs |-> kwargs, outcome |-> outcome, raised |-> r.raised]
       /\ UNCHANGED <<history, clock, jobs, nextId, response, ws, pull>>

NextRegistry ==
    \/ \E workflow_id \in JobIds, status \in {"pending", "processing"},
          now \in Times, outcome \in DbOutcomes :
            RegCreate(workflow_id, status, now, outcome)
    \/ \E workflow_id \in Ids, kwargs \in CoordinatorUpdates,
          outcome \in DbOutcomes :
            RegUpdate(workflow_id, kwargs, outcome)

SpecRegistry == Init /\ [][NextRegistry]_vars

\* ------------------------------------------------- the agents on their own
\* The actions of this part call one agent method directly, once in a
\* behaviour, and keep the input and what came back in `call`.

\* ExtractionAgent: an uploaded file is its name, its extension, and whether
\* the library that reads it gets through it (a corrupt or unreadable file
\* makes fitz.open / open / read raise)
Extensions == {"pdf", "txt", "other"}

UploadFiles(n) ==
    {f \in [1..n -> [name : 1..n, ext : Extensions, readable : BOOLEAN]] :
        \A k \in 1..n : f[k].name = k}

_create_fallback_paper(file_path, topics) ==
    [source |-> file_path.name, title |-> <<"Document: ", file_path.name>>,
     abstract |-> "Content extraction failed or unsupported file format",
     topics |-> topics]

extracted_paper(file_path, topics) ==
    [source |-> file_path.name, title |-> <<"{metadata title}">>,
     abstract |-> "{metadata abstract}", topics |-> topics]

\* _extract_from_pdf / _extract_from_text_file: the paper, or None (the empty
\* sequence) when anything in the helper raised
_extract_from_pdf(file_path, topics) ==
    IF file_path.readable THEN <<extracted_paper(file_path, topics)>> ELSE <<>>

_extract_from_text_file(file_path, topics) ==
    IF file_path.readable THEN <<extracted_paper(file_path, topics)>> ELSE <<>>

\* the body of the loop of ExtractionAgent.process: what one file appends
extract_one(file_path, topics, pdf_available) ==
    IF pdf_available /\ file_path.ext = "pdf"
    THEN _extract_from_pdf(file_path, topics)
    ELSE IF file_path.ext = "txt"
    THEN _extract_from_text_file(file_path, topics)
    ELSE <<_create_fallback_paper(file_path, topics)>>

RECURSIVE extract_all(_, _, _)
extract_all(file_paths, topics, pdf_available) ==
    IF file_paths = <<>> THEN <<>>
    ELSE extract_one(Head(file_paths), topics, pdf_available)
            \o extract_all(Tail(file_paths), topics, pdf_available)

ExtractionAgent_process(paper_input, pdf_available) ==
    [raised |-> FALSE,
     papers |-> extract_all(paper_input.file_paths, paper_input.topics,
                            pdf_available)]

AgentVarsUnchanged ==
    UNCHANGED <<workflows, history, clock, jobs, nextId, response, ws, pull, db>>

ExtractCall(paper_input, pdf_available) ==
    /\ call = NoCall
    /\ call' = [op |-> "extraction", input |-> paper_input,
                pdf_available |-> pdf_available,
                result |-> ExtractionAgent_process(paper_input, pdf_available)]
    /\ AgentVarsUnchanged

\* ClassificationAgent: the first topics of topic_definitions, in dict order
TopicNames ==
    <<"Artificial Intelligence", "Machine Learning",
      "Natural Language Processing", "Computer Vision", "Data Science">>

Topics == DOMAIN TopicNames

\* sorted(items, key=score, reverse=True): descending, ties in dict order
RECURSIVE sorted_desc(_, _)
sorted_desc(score, S) ==
    IF S = {} THEN <<>>
    ELSE LET best == CHOOSE t \in S : \A u \in S :
                        score[t] > score[u] \/ (score[t] = score[u] /\ t <= u)
         IN <<best>> \o sorted_desc(score, S \ {best})

\* a paper as the Classifier sees it: the final score of each topic on the
\* semantic path (in hundredths), and the number of keywords of each topic
\* found in title and abstract
ClassifierPapers ==
    {[scores |-> s, matches |-> [t \in Topics |-> 0]] :
        s \in [Topics -> {30, 40, 50, 60}]}
    \cup {[scores |-> [t \in Topics |-> 30], matches |-> m] :
        m \in [Topics -> 0..2]}

\* _fallback_classification: the two topics with most keyword matches, or the
\* generic pair
_fallback_classification(paper) ==
    LET matched == {t \in Topics : paper.matches[t] > 0}
        sorted_matches == sorted_desc(paper.matches, matched)
    IN IF matched # {}
       THEN [k \in 1..(IF Len(sorted_matches) < 2 THEN Len(sorted_matches) ELSE 2)
                |-> TopicNames[sorted_matches[k]]]
       ELSE <<"Computer Science", "Research">>

\* for topic, score in sorted_topics[1:]: the threshold tests
RECURSIVE additional_topics(_, _, _)
additional_topics(selected, rest, score) ==
    IF rest = <<>> THEN selected
    ELSE LET t == Head(rest)
         IN additional_topics(
                IF score[t] > 50 THEN Append(selected, t)
                ELSE IF score[t] > 40 /\ Len(selected) < 3 THEN Append(selected, t)
                ELSE selected,
                Tail(rest), score)

\* variant: the list is returned as selected
limit_topics_none(selected_topics) == selected_topics

\* selected_topics[:4]
limit_topics(selected_topics) ==
    SubSeq(selected_topics, 1,
           IF Len(selected_topics) < 4 THEN Len(selected_topics) ELSE 4)

\* the try block of ClassificationAgent.process
semantic_classification(paper) ==
    LET sorted_topics == sorted_desc(paper.scores, Topics)
        top == IF paper.scores[sorted_topics[1]] > 30
               THEN <<sorted_topics[1]>> ELSE <<>>
        more == additional_topics(top, Tail(sorted_topics), paper.scores)
        selected_topics == limit_topics(IF more = <<>> THEN <<sorted_topics[1]>>
                                        ELSE more)
    IN [k \in 1..Len(selected_topics) |-> TopicNames[selected_topics[k]]]

\* ClassificationAgent.process: the topics, and the paper as the call leaves
\* it; `encode_raises` is the embedding model failing inside the try block
ClassificationAgent_process(paper, model_available, encode_raises) ==
    [topics |-> IF model_available /\ ~encode_raises
                THEN semantic_classification(paper)
                ELSE _fallback_classification(paper),
     paper |-> paper]

ClassifyCall(paper, model_available, encode_raises) ==
    /\ call = NoCall
    /\ call' = [op |-> "classification", input |-> paper,
                model_available |-> model_available,
                encode_raises |-> encode_raises,
                result |-> ClassificationAgent_process(paper, model_available,
                                                       encode_raises)]
    /\ AgentVarsUnchanged

\* SummarizationAgent, by lengths.  A paper as the Summarizer sees it:
\*   text_len     length of the text _prepare_text_for_summarization returns
\*   sentences    number of sentences _tokenize_sentences finds in it
\*   built_len    length of the summary a method has built before it applies
\*                the cap (joined chunk summaries, joined top sentences, or the
\*                joined parts of the fallback)
\*   last_period, last_space   what rfind returns on the first max_length
\*                characters of that summary (-1: not found)
max_length == 150

SummarizerPapers ==
    [text_len : {50, 120, 200}, sentences : 0..3,
     built_len : {100, 150, 151, 300},
     last_period : {-1, 100, 101, 149}, last_space : {-1, 130, 131, 149}]

\* the `if len(summary) > max_length:` block shared by the three methods:
\* the length of the summary it leaves
cap_for_ui(paper) ==
    IF paper.built_len > max_length
    THEN IF paper.last_period > max_length - 50 THEN paper.last_period + 1
         ELSE IF paper.last_space > max_length - 20 THEN paper.last_space + 3
         ELSE max_length + 3
    ELSE paper.built_len

_generate_fallback_summary(paper) ==
    [length |-> cap_for_ui(paper), method |-> "fallback"]

_generate_abstractive_summary(paper) ==
    [length |-> cap_for_ui(paper), method |-> "abstractive"]

\* one or two sentences are joined and returned as they are
_generate_extractive_summary(paper) ==
    IF paper.text_len < 100 THEN _generate_fallback_summary(paper)
    ELSE IF paper.sentences = 0 THEN _generate_fallback_summary(paper)
    ELSE IF paper.sentences <= 2
    THEN [length |-> paper.text_len, method |-> "extractive"]
    ELSE [length |-> cap_for_ui(paper), method |-> "extractive"]

\* SummarizationAgent.process; `method_raises` is an exception inside the
\* method chosen
SummarizationAgent_process(paper, model_available, method_raises) ==
    IF method_raises THEN _generate_fallback_summary(paper)
    ELSE IF model_available THEN _generate_abstractive_summary(paper)
    ELSE _generate_extractive_summary(paper)

SummarizeCall(paper, model_available, method_raises) ==
    /\ call = NoCall
    /\ call' = [op |-> "summarization", input |-> paper,
                model_available |-> model_available,
                method_raises |-> method_raises,
                result |-> SummarizationAgent_process(paper, model_available,
                                                      method_raises)]
    /\ AgentVarsUnchanged

\* SynthesisAgent: what the Coordinator hands over, one classification for
\* each paper, with classifications that list the same topics in either order
TopicLists == {<<"ML">>, <<"ML", "NLP">>, <<"NLP", "ML">>}

SynthesisInputs ==
    UNION {{[papers |-> ArxivPapers(n), classifications |-> c, summaries |-> <<>>] :
                c \in [1..n -> TopicLists]} : n \in 0..MaxPapers}

SynthesizeCall(classified_papers) ==
    /\ call = NoCall
    /\ call' = [op |-> "synthesis", input |-> classified_papers,
                result |-> synthesis_process(classified_papers)]
    /\ AgentVarsUnchanged

\* AudioAgent.  The text to render is empty, short, or longer than what one
\* gTTS call takes (5000 characters); the environment says which library
\* _initialize_tts found, whether rendering works, and whether a placeholder
\* file can be written.
NarratorTexts == {"", "short", "long"}

NarratorEnvs ==
    [tts : {"none", "gtts", "pyttsx3"}, render : {"ok", "error"},
     disk : {"ok", "error"}]

\* _generate_chunked_gtts_audio: one file per chunk, nothing on any error
_generate_chunked_gtts_audio(env) ==
    IF env.render = "ok"
    THEN <<"audio/synthesis_part1.mp3", "audio/synthesis_part2.mp3">>
    ELSE <<>>

\* _generate_gtts_audio: the helper catches its own errors and returns []
_generate_gtts_audio(text, env) ==
    IF text = "long" THEN _generate_chunked_gtts_audio(env)
    ELSE IF env.render = "ok" THEN <<"audio/synthesis.mp3">>
    ELSE <<>>

\* _generate_pyttsx3_audio: likewise
_generate_pyttsx3_audio(text, env) ==
    IF env.render = "ok" THEN <<"audio/synthesis.mp3">> ELSE <<>>

\* AudioAgent.process: the placeholder of the first branch is written outside
\* any try block
AudioAgent_process(synthesis, env) ==
    IF env.tts = "none"
    THEN IF env.disk = "ok"
         THEN [raised |-> FALSE, audio_files |-> <<"audio/synthesis.txt">>]
         ELSE [raised |-> TRUE, audio_files |-> <<>>]
    ELSE [raised |-> FALSE,
          audio_files |->
              IF synthesis.synthesis = "" THEN <<>>
              ELSE IF env.tts = "gtts"
              THEN _generate_gtts_audio(synthesis.synthesis, env)
              ELSE _generate_pyttsx3_audio(synthesis.synthesis, env)]

NarrateCall(synthesis, env) ==
    /\ call = NoCall
    /\ call' = [op |-> "audio", input |-> synthesis, env |-> env,
                result |-> AudioAgent_process(synthesis, env)]
    /\ AgentVarsUnchanged

\* The texts handed to the rendering library.  A synthesis text is `words`
\* words of `word_len` characters each, with one blank between two words.
gtts_limit == 5000
chunk_size == 100

WordTexts == [words : {1, 100, 101, 250}, word_len : {4, 49, 50, 6000}]

\* len(' '.join(words)) for w words of the text
joined_len(text, w) == w * text.word_len + (w - 1)

\* [' '.join(words[i:i+chunk_size]) for i in range(0, len(words), chunk_size)]:
\* the length of every chunk
chunk_lengths(text) ==
    LET n == (text.words + chunk_size - 1) \div chunk_size
    IN [k \in 1..n |->
           joined_len(text, IF k * chunk_size <= text.words THEN chunk_size
                            ELSE text.words - (k - 1) * chunk_size)]

\* the lengths of the texts of the single rendering calls of one
\* AudioAgent.process: gTTS(text=...) per chunk or for the whole text,
\* engine.save_to_file(text, ...) for the whole text
rendering_calls(text, tts_method) ==
    IF tts_method = "gtts" /\ joined_len(text, text.words) > gtts_limit
    THEN chunk_lengths(text)
    ELSE <<joined_len(text, text.words)>>

RenderCall(text, tts_method) ==
    /\ call = NoCall
    /\ call' = [op |-> "render", input |-> text, tts_method |-> tts_method,
                result |-> rendering_calls(text, tts_method)]
    /\ AgentVarsUnchanged

\* DiscoveryAgent.  What the request to ArXiv meets: a 200 response with n
\* entries, a timeout, another status code, a body that is not XML, an entry
\* without text in its title (AttributeError while parsing), or an error
\* while the query string is built, before the try block of search_arxiv.
Upstreams == {"ok", "timeout", "non200", "malformed", "bad_entry", "setup_error"}

search_arxiv(search_query, upstream, n) ==
    IF upstream = "setup_error" THEN [raised |-> TRUE, papers |-> <<>>]
    ELSE IF upstream = "ok" THEN [raised |-> FALSE, papers |-> ArxivPapers(n)]
    ELSE [raised |-> FALSE, papers |-> <<>>]

\* variant: the error of search_arxiv is passed on
DiscoveryAgent_process_unguarded(query, upstream, n) ==
    IF DictGet(query, "search_query") = ""
    THEN [raised |-> FALSE, papers |-> <<>>]
    ELSE search_arxiv(query["search_query"], upstream, n)

\* DiscoveryAgent.process
DiscoveryAgent_process(query, upstream, n) ==
    IF DictGet(query, "search_query") = ""
    THEN [raised |-> FALSE, papers |-> <<>>]
    ELSE LET r == search_arxiv(query["search_query"], upstream, n)
         IN IF r.raised
            THEN [raised |-> FALSE,
                  papers |-> <<[id |-> 1, topics |-> <<"AI">>, doi |-> "fallback"]>>]
            ELSE r

DiscoverCall(query, upstream, n) ==
    /\ call = NoCall
    /\ call' = [op |-> "discovery", input |-> query, upstream |-> upstream,
                entries |-> n,
                result |-> DiscoveryAgent_process(query, upstream, n)]
    /\ AgentVarsUnchanged

\* the progress expression of the per-paper loop, for any number of papers
\* (for these totals the float expression int((i / total) * 35) and the
\* integer division agree)
ProgressCall(kind, i, total_papers) ==
    /\ call = NoCall
    /\ call' = [op |-> "progress", kind |-> kind, i |-> i,
                total_papers |-> total_papers,
                result |-> paper_progress(kind, i, total_papers)]
    /\ AgentVarsUnchanged

NextAgents ==
    \/ \E n \in 1..MaxPapers : \E file_paths \in UploadFiles(n) :
         \E topics \in TopicHints, pdf_available \in BOOLEAN :
            ExtractCall([file_paths |-> file_paths, topics |-> topics],
                        pdf_available)
    \/ \E paper \in ClassifierPapers, model_available, encode_raises \in BOOLEAN :
            ClassifyCall(paper, model_available, encode_raises)
    \/ \E paper \in SummarizerPapers, model_available, method_raises \in BOOLEAN :
            SummarizeCall(paper, model_available, method_raises)
    \/ \E classified_papers \in SynthesisInputs : SynthesizeCall(classified_papers)
    \/ \E text \in NarratorTexts, env \in NarratorEnvs :
            NarrateCall([synthesis |-> text], env)
    \/ \E text \in WordTexts, tts_method \in {"gtts", "pyttsx3"} :
            RenderCall(text, tts_method)
    \/ \E query \in SearchRequests, upstream \in Upstreams, n \in 0..MaxPapers :
            DiscoverCall(query, upstream, n)
    \/ \E kind \in {"search", "upload"}, total_papers \in 1..MaxTotal :
         \E i \in 0..(total_papers - 1) : ProgressCall(kind, i, total_papers)

SpecAgents == Init /\ [][NextAgents]_vars

\* ------------------------------------------------------------ specification
\* submissions and the pipeline coordinator: every step that writes the
\* registry
NextJobs ==
    \/ \E request \in SearchRequests : SubmitSearch(request)
    \/ \E n \in 1..MaxPapers, t \in TopicHints : SubmitUpload(n, t)
    \/ \E request \in SearchRequests : OrchCreate(request)
    \/ \E request \in UploadRequests : OrchCreate(request)
    \/ \E j \in JobIds :
        \/ BgStart(j) \/ BgFirstStage(j) \/ BgBranch(j) \/ BgLoopEnter(j)
        \/ BgClassify(j) \/ BgSummarize(j) \/ BgSynthesize(j)
        \/ BgAudioMilestone(j) \/ BgNarrate(j) \/ BgFinalize(j)
        \/ OrchEnter(j) \/ OrchFirstStage(j) \/ OrchClassify(j)
        \/ OrchSummarize(j) \/ OrchSynthesize(j) \/ OrchNarrate(j)

\* the coordinator without any status client connected
SpecJobs == Init /\ [][NextJobs]_vars

Next ==
    \/ NextJobs
    \/ \E workflow_id \in Ids : PullRead(workflow_id)
    \/ \E workflow_id \in Ids : WsConnect(workflow_id)
    \/ WsPoll \/ WsSent \/ WsGrace \/ WsSleep

Spec == Init /\ [][Next]_vars

\* the background jobs and a push stream, with results payloads that json may
\* fail to encode
NextStream ==
    \/ \E request \in SearchRequests : SubmitSearch(request)
    \/ \E n \in 1..MaxPapers, t \in TopicHints : SubmitUpload(n, t)
    \/ \E j \in JobIds :
        \/ BgStart(j) \/ BgFirstStage(j) \/ BgBranch(j) \/ BgLoopEnter(j)
        \/ BgClassify(j) \/ BgSummarize(j) \/ BgSynthesize(j)
        \/ BgAudioMilestone(j) \/ BgNarrate(j) \/ BgFinalize(j)
    \/ \E workflow_id \in Ids : WsConnect(workflow_id)
    \/ WsPoll \/ WsPollTypeError \/ WsSent \/ WsGrace \/ WsSleep

SpecStream == Init /\ [][NextStream]_vars

\* two background jobs side by side: any search or upload, and an upload of
\* one file
NextTwoJobs ==
    \/ \E request \in SearchRequests : SubmitSearch(request)
    \/ \E n \in 1..MaxPapers, t \in TopicHints : SubmitUpload(n, t)
    \/ \E t \in TopicHints : SubmitUploadOfTwo(t)
    \/ \E j \in TwoJobIds :
        \/ BgStart(j) \/ BgFirstStage(j) \/ BgBranch(j) \/ BgLoopEnter(j)
        \/ BgClassify(j) \/ BgSummarize(j) \/ BgSynthesize(j)
        \/ BgAudioMilestone(j) \/ BgNarrate(j) \/ BgFinalize(j)

SpecTwoJobs == Init /\ [][NextTwoJobs]_vars

\* the coordinator and a client that only polls GET /status
NextPull ==
    \/ NextJobs
    \/ \E workflow_id \in Ids : PullRead(workflow_id)

SpecPull == Init /\ [][NextPull]_vars

\* the background task is awaited by the server once the response is out, and
\* every sleep and agent call returns or raises: each step of a job that is
\* enabled is eventually taken
BgStep(j) ==
    \/ BgStart(j) \/ BgFirstStage(j) \/ BgBranch(j) \/ BgLoopEnter(j)
    \/ BgClassify(j) \/ BgSummarize(j) \/ BgSynthesize(j)
    \/ BgAudioMilestone(j) \/ BgNarrate(j) \/ BgFinalize(j)

FairSpec == SpecJobs /\ \A j \in JobIds : WF_vars(BgStep(j))

\* ------------------------------------------------------------------ claims
Range(s) == {s[k] : k \in 1..Len(s)}

Record(id) == get_workflow(workflows, id)

\* C1: once a record's status is completed or failed, no later
\* create_workflow / update_workflow call and no later step of the system
\* changes any of its fields.
C1_TerminalIsFinal ==
    /\ [](\A id \in JobIds : \A k \in 1..Len(history[id]) :
            history[id][k].status \in Terminal => k = Len(history[id]))
    /\ [][\A id \in DOMAIN workflows :
            workflows[id].status \in Terminal
                => id \in DOMAIN workflows' /\ workflows'[id] = workflows[id]]_vars

\* a terminal record that a client has read after the job ended
C1_Witness ==
    \E id \in DOMAIN workflows :
        /\ jobs[id].pc = "done" /\ Record(id).status = "completed"
        /\ pull.code = 200 /\ pull.id = id /\ pull.body.status = "completed"

\* C2 (as stated): every progress value written to a record that is not yet
\* terminal is at least the value it replaces.
C2_Original ==
    \A id \in JobIds : \A k \in 1..(Len(history[id]) - 1) :
        history[id][k].status \notin Terminal
            => history[id][k + 1].progress >= history[id][k].progress

\* C2 (amended): the progress values written are non-decreasing over every
\* write except the one that sets the status to failed, which resets the
\* progress to 0.
C2_ProgressMonotoneUntilFailure ==
    \A id \in JobIds : \A k \in 1..(Len(history[id]) - 1) :
        /\ history[id][k + 1].status # "failed"
              => history[id][k + 1].progress >= history[id][k].progress
        /\ history[id][k + 1].status = "failed"
              => history[id][k + 1].progress = 0

\* a job that went through the per-paper loop twice and completed
C2_Witness ==
    \E id \in DOMAIN workflows :
        /\ Len(jobs[id].papers) >= 2 /\ Record(id).status = "completed"
        /\ Len(history[id]) >= 10

\* C3 (as stated): a stream subscribed to a background job whose record was
\* in the registry closes after having forwarded exactly one terminal
\* snapshot, as its last message.
IsTerminalSnapshot(m) == m.kind = "snapshot" /\ m.body.status \in Terminal

C3_Original ==
    (ws.pc = "closed" /\ ws.sent[1].kind = "snapshot" /\ IsBg(ws.id))
        => /\ Cardinality({k \in 1..Len(ws.sent) : IsTerminalSnapshot(ws.sent[k])}) = 1
           /\ IsTerminalSnapshot(Last(ws.sent))

\* C4 (as stated): from the submission response on, the id of an accepted
\* search submission has a record, pending or processing until the job ends.
C4_Original ==
    \A j \in JobIds :
        (jobs[j].kind = "search" /\ jobs[j].pc # "done")
            => /\ has_workflow(workflows, j)
               /\ Record(j).status \in NonTerminal

\* C5: a background job that has started running eventually leaves its
\* record in a terminal state, and a job that has ended has such a record.
Started(j) == IsBg(j) /\ jobs[j].pc \notin {"idle", "queued"}

HasTerminalRecord(j) ==
    has_workflow(workflows, j) /\ Record(j).status \in Terminal

C5_JobsTerminate ==
    \A j \in JobIds :
        /\ Started(j) ~> HasTerminalRecord(j)
        /\ []((IsBg(j) /\ jobs[j].pc = "done") => HasTerminalRecord(j))

\* a job that ended in the failure handler
C5_Witness ==
    \E j \in JobIds :
        /\ IsBg(j) /\ jobs[j].pc = "done" /\ jobs[j].error # ""
        /\ HasTerminalRecord(j)

\* C6 (as stated): when a stage raised, the record is failed with progress 0
\* and the error text in its message, and the entry point did not raise.
C6_Original ==
    \A j \in JobIds :
        (jobs[j].pc = "done" /\ jobs[j].error \in ErrorTexts)
            => /\ Record(j).status = "failed"
               /\ Record(j).progress = 0
               /\ Record(j).message.err = jobs[j].error
               /\ jobs[j].outcome # "raised"

\* C7: when the first stage of a background job returned no papers, no other
\* agent is called, and the job ends completed at 100 with a payload whose
\* synthesis has paper_count 0 and a non-empty narrative.
NoPapers(j) ==
    /\ IsBg(j) /\ jobs[j].pc \in {"branch", "done"}
    /\ jobs[j].calls.first = 1 /\ jobs[j].error = "" /\ jobs[j].papers = <<>>

C7_EmptyShortCircuit ==
    \A j \in JobIds :
        NoPapers(j) =>
            /\ jobs[j].calls.classification = 0
            /\ jobs[j].calls.summarization = 0
            /\ jobs[j].calls.synthesis = 0
            /\ jobs[j].calls.audio = 0
            /\ jobs[j].pc = "done" =>
                /\ Record(j).status = "completed"
                /\ Record(j).progress = 100
                /\ Record(j).results.synthesis.paper_count = 0
                /\ Record(j).results.synthesis.synthesis # ""

\* an upload whose files all failed to extract, ended
C7_Witness ==
    \E j \in JobIds :
        NoPapers(j) /\ jobs[j].kind = "upload" /\ jobs[j].pc = "done"

\* C8 (as stated): when the Summarizer is called for a paper, the paper's
\* topics already hold what the Classifier returned for it (the summary
\* echoes the topics the Summarizer found on the paper).
C8_Original ==
    \A j \in JobIds : \A k \in 1..Len(jobs[j].summaries) :
        jobs[j].summaries[k].topics = jobs[j].classifications[k]

\* C9 (as stated): a run with at least one paper has called the Synthesizer
\* and the Narrator exactly once each when it ends.
C9_Original ==
    \A j \in JobIds :
        (jobs[j].pc = "done" /\ Len(jobs[j].papers) >= 1)
            => jobs[j].calls.synthesis = 1 /\ jobs[j].calls.audio = 1

\* C9 (amended): in a run with at least one paper the Synthesizer is called
\* at most once and only after every paper is classified and summarized, the
\* Narrator at most once and only after the Synthesizer returned; a run in
\* which no stage raised has called each exactly once when it ends.
C9_StageOrder ==
    \A j \in JobIds :
        LET J == jobs[j]
            n == Len(J.papers)
        IN n >= 1 =>
            /\ J.calls.synthesis <= 1 /\ J.calls.audio <= 1
            /\ J.calls.synthesis = 1 =>
                  /\ J.calls.classification = n /\ J.calls.summarization = n
                  /\ Len(J.classifications) = n /\ Len(J.summaries) = n
            /\ J.calls.audio = 1 =>
                  /\ J.calls.synthesis = 1 /\ J.synthesis.paper_count = n
            /\ (J.pc = "done" /\ J.error = "")
                  => J.calls.synthesis = 1 /\ J.calls.audio = 1

\* a two-paper search that ran all four stages
C9_Witness ==
    \E j \in JobIds :
        /\ jobs[j].kind = "search" /\ jobs[j].pc = "done" /\ jobs[j].error = ""
        /\ Len(jobs[j].papers) = 2 /\ jobs[j].calls.audio = 1

\* C10: every snapshot a client receives, by pull or by push, is the record
\* as it stood right after its creation or after one complete update call.
C10_SnapshotsAreWhole ==
    /\ \A k \in 1..Len(ws.sent) :
          ws.sent[k].kind = "snapshot" => ws.sent[k].body \in Range(history[ws.id])
    /\ pull.code = 200 => pull.body \in Range(history[pull.id])

\* a stream that forwarded two different snapshots of a record
C10_Witness ==
    /\ Len(ws.sent) >= 2
    /\ ws.sent[1].kind = "snapshot" /\ ws.sent[2].kind = "snapshot"
    /\ ws.sent[1].body.progress < ws.sent[2].body.progress

\* C11 (as stated): a stream subscribed for a submitted job before its
\* background job starts forwards, as its first message, a snapshot in state
\* pending or processing with progress 0.  Here: the stream has built its
\* first message while the job is still waiting to start.
C11_Original ==
    (/\ ws.pc = "sending" /\ ws.sent = <<>>
     /\ ws.id \in JobIds /\ IsBg(ws.id) /\ jobs[ws.id].pc = "queued")
        => /\ ws.text.kind = "snapshot"
           /\ ws.text.body.status \in NonTerminal
           /\ ws.text.body.progress = 0

\* C12: a stream whose read of the registry finds no record for its id has
\* forwarded nothing before, sends one not-found message and is closed with
\* that message as the only one it ever forwarded.
C12_UnknownIdNotFound ==
    /\ (ws.pc = "sending" /\ ws.text.kind = "not_found") => ws.sent = <<>>
    /\ \A k \in 1..Len(ws.sent) :
          ws.sent[k].kind = "not_found"
              => /\ Len(ws.sent) = 1 /\ ws.pc = "closed"
                 /\ ws.sent[k].body = <<>>

\* a stream for an id no submission was given, closed after its one message,
\* while a job has run to its end
C12_Witness ==
    /\ ws.id = 0 /\ ws.pc = "closed" /\ Len(ws.sent) = 1
    /\ ws.sent[1].kind = "not_found"
    /\ \E j \in JobIds : jobs[j].pc = "done"

\* C13: a status read answers 404 exactly when the registry has no record
\* under the id, and otherwise answers with the record itself, which carries
\* its id, status, progress and message, whatever its status is.
C13_PullReadsTheRegistry ==
    [][\A workflow_id \in Ids : PullRead(workflow_id) =>
          /\ pull'.code = 404 <=> workflow_id \notin DOMAIN workflows
          /\ workflow_id \in DOMAIN workflows =>
                /\ pull'.code = 200
                /\ pull'.body = workflows[workflow_id]
                /\ {"id", "status", "progress", "message"}
                       \subseteq DOMAIN pull'.body
                /\ pull'.body.id = workflow_id]_vars

\* a read that returned the record of a failed job
C13_Witness ==
    /\ pull.code = 200 /\ pull.body.status = "failed"
    /\ pull.id \in JobIds /\ jobs[pull.id].pc = "done"

\* C14: once a read has returned a terminal record, the registry keeps
\* holding exactly that payload, and the next read of the same id, whatever
\* happened in between, returns the identical response.
C14_TerminalReadsAgree ==
    /\ [](pull.code = 200 /\ pull.body.status \in Terminal
            => /\ pull.id \in DOMAIN workflows
               /\ workflows[pull.id] = pull.body)
    /\ [][(pull.code = 200 /\ pull.body.status \in Terminal
              /\ pull'.id = pull.id) => pull' = pull]_vars

\* a completed record with its result payload was read, and a further
\* submission was answered afterwards
C14_Witness ==
    /\ pull.code = 200 /\ pull.body.status = "completed"
    /\ pull.body.results.papers_processed >= 1
    /\ response.code = 500

\* C15 (as stated): a search submission with no query text is answered with
\* a client error (a 4xx response), and nothing results from it: no task is
\* scheduled, no id is drawn and the registry is as before.
C15_Original ==
    [][\A request \in SearchRequests :
          (search_query_or_query(request) = "" /\ SubmitSearch(request))
              => /\ response'.code \in 400..499
                 /\ jobs' = jobs /\ nextId' = nextId
                 /\ workflows' = workflows]_vars

\* C16: update_workflow with an id that has no record leaves the in-memory
\* registry exactly as it was: no record appears under the id and the
\* records that exist are untouched.
C16_UpdateUnknownIsNoOp ==
    [][\A workflow_id \in Ids, kwargs \in CoordinatorUpdates,
         outcome \in DbOutcomes :
          (workflow_id \notin DOMAIN workflows
             /\ RegUpdate(workflow_id, kwargs, outcome))
              => workflows' = workflows]_vars

\* the last call was an update for an id without a record, while another
\* record exists
C16_Witness ==
    /\ call.op = "update" /\ call.workflow_id \notin DOMAIN workflows
    /\ workflows # <<>>

\* C17: update_workflow on an existing record gives every field named in
\* the call the value passed, keeps every other field of the record and
\* every other record as they were, and, for the keyword sets the
\* Coordinator passes, leaves `id` and `created_at` as create_workflow set
\* them.
C17_UpdateFrame ==
    [][\A workflow_id \in Ids, kwargs \in CoordinatorUpdates,
         outcome \in DbOutcomes :
          (workflow_id \in DOMAIN workflows
             /\ RegUpdate(workflow_id, kwargs, outcome))
              => LET old == workflows[workflow_id]
                     new == workflows'[workflow_id]
                 IN /\ DOMAIN workflows' = DOMAIN workflows
                    /\ DOMAIN new = (DOMAIN old) \cup (DOMAIN kwargs)
                    /\ \A f \in DOMAIN new :
                          new[f] = IF f \in DOMAIN kwargs THEN kwargs[f]
                                   ELSE old[f]
                    /\ \A x \in (DOMAIN workflows) \ {workflow_id} :
                          workflows'[x] = workflows[x]
                    /\ new.id = old.id /\ new.created_at = old.created_at]_vars

\* a record created at time 1 that an update has since completed
C17_Witness ==
    /\ call.op = "update" /\ call.workflow_id \in DOMAIN workflows
    /\ workflows[call.workflow_id].status = "completed"
    /\ workflows[call.workflow_id].created_at = 1
    /\ workflows[call.workflow_id].id = call.workflow_id

\* C18: when the database session fails, create_workflow and update_workflow
\* do not raise, and the in-memory registry they leave is the one they
\* leave when the session works: the created record with the status passed,
\* the updated record with every keyword passed.
C18_MirrorFailureIsHarmless ==
    [][/\ \A workflow_id \in JobIds, status \in {"pending", "processing"},
           now \in Times :
            RegCreate(workflow_id, status, now, "error")
              => /\ ~call'.raised
                 /\ workflows' = create_workflow_call(workflows, db,
                        workflow_id, status, now, "ok").workflows
                 /\ workflows'[workflow_id].status = status
                 /\ workflows'[workflow_id].created_at = now
       /\ \A workflow_id \in Ids, kwargs \in CoordinatorUpdates :
            RegUpdate(workflow_id, kwargs, "error")
              => /\ ~call'.raised
                 /\ workflows' = update_workflow_call(workflows, db,
                        workflow_id, kwargs, "ok").workflows
                 /\ workflow_id \in DOMAIN workflows =>
                       \A f \in DOMAIN kwargs :
                           workflows'[workflow_id][f] = kwargs[f]]_vars

\* a record that was completed by an update whose session failed, with no
\* row in the mirror at all
C18_Witness ==
    /\ call.op = "update" /\ call.outcome = "error"
    /\ call.workflow_id \in DOMAIN workflows
    /\ workflows[call.workflow_id].status = "completed"
    /\ db = <<>>

\* C19 (as stated): a background job whose first stage returned n >= 1
\* papers and in which no stage raised ends completed, with a payload where
\* papers_processed = n, the papers, classifications and summaries lists
\* have n entries each in paper order, the synthesis counts at least one
\* unique topic, and the narration-artifact list has at least one entry.
C19_Original ==
    \A j \in JobIds :
        LET J == jobs[j]
            n == Len(J.papers)
        IN (IsBg(j) /\ J.pc = "done" /\ J.error = "" /\ n >= 1) =>
            /\ Record(j).status = "completed"
            /\ LET r == Record(j).results
               IN /\ r.papers_processed = n
                  /\ Len(r.papers) = n /\ Len(r.classifications) = n
                  /\ Len(r.summaries) = n
                  /\ \A k \in 1..n :
                        /\ r.papers[k].id = J.papers[k].id
                        /\ r.summaries[k].paper_id = J.papers[k].id
                        /\ r.classifications[k] = r.papers[k].topics
                  /\ r.synthesis.paper_count = n
                  /\ r.synthesis.topic_analysis.total_unique_topics >= 1
                  /\ Len(r.audio_files) >= 1

\* C20 (as stated): the result payload of every completed record carries
\* the job id, equal to the id of the record that holds it.
C20_Original ==
    \A id \in DOMAIN workflows :
        workflows[id].status = "completed"
            => /\ "results" \in DOMAIN workflows[id]
               /\ "workflow_id" \in DOMAIN workflows[id].results
               /\ workflows[id].results.workflow_id = id

\* C21 (as stated): Extractor.process returns one Paper per input file, in
\* input order, and a file whose extraction fails (unreadable, or of a type
\* that is not read) contributes the fallback Paper whose title carries the
\* file name.
C21_Original ==
    call.op = "extraction" =>
        LET file_paths == call.input.file_paths
            papers == call.result.papers
        IN /\ ~call.result.raised
           /\ Len(papers) = Len(file_paths)
           /\ \A k \in 1..Len(file_paths) :
                /\ papers[k].source = file_paths[k].name
                /\ (~file_paths[k].readable \/ file_paths[k].ext = "other")
                      => papers[k].title = <<"Document: ", file_paths[k].name>>

\* C22: Classifier.process returns at least 1 and at most 4 topic labels for
\* every paper; a paper that matches no keyword gets the generic pair on the
\* keyword path; and the paper is the same after the call as before.
C22_OneToFourTopics ==
    call.op = "classification" =>
        /\ Len(call.result.topics) \in 1..4
        /\ ((\A t \in Topics : call.input.matches[t] = 0)
              /\ (~call.model_available \/ call.encode_raises))
              => call.result.topics = <<"Computer Science", "Research">>
        /\ call.result.paper = call.input

\* the semantic path selected more than four topics and returned four
C22_Witness ==
    /\ call.op = "classification" /\ call.model_available /\ ~call.encode_raises
    /\ \A t \in Topics : call.input.scores[t] = 60
    /\ Len(call.result.topics) = 4

\* C23 (as stated): whatever the method, the summary text Summarizer.process
\* returns is at most max_length (150) characters long.
C23_Original ==
    call.op = "summarization" => call.result.length <= max_length

\* C24: Synthesizer.process with no papers returns a synthesis whose
\* narrative is the non-empty "no papers" text, whose paper_count is 0 and
\* whose topic analysis is empty.
C24_EmptySynthesis ==
    (call.op = "synthesis" /\ call.input.papers = <<>>) =>
        /\ call.result.synthesis = "No papers available for synthesis."
        /\ call.result.paper_count = 0
        /\ call.result.topic_analysis = <<>>

\* the Synthesizer was called with no papers
C24_Witness ==
    /\ call.op = "synthesis" /\ call.input.papers = <<>>
    /\ call.result.paper_count = 0

\* C25 (as stated): the co-occurrence count kept for a pair of topics equals
\* the number of papers whose classification contains both, in whatever
\* order the papers list them.
C25_Original ==
    (call.op = "synthesis" /\ call.input.papers # <<>>) =>
        LET classifications == call.input.classifications
            counts == call.result.topic_analysis.topic_cooccurrence
        IN \A key \in DOMAIN counts :
              counts[key] = Cardinality({k \in DOMAIN classifications :
                  {key[1], key[2]} \subseteq Range(classifications[k])})

\* C26 (as stated): Narrator.process never raises, and for a non-empty
\* synthesis text it returns at least one artifact reference: a placeholder
\* when rendering is unavailable or fails.
C26_Original ==
    call.op = "audio" =>
        /\ ~call.result.raised
        /\ call.input.synthesis # "" => Len(call.result.audio_files) >= 1

\* C27: Source.process never raises, and when the request to the upstream
\* fails in any way it returns the empty list or a list of one fallback
\* Paper.
C27_SourceAbsorbsFailures ==
    call.op = "discovery" =>
        /\ ~call.result.raised
        /\ call.upstream # "ok" =>
              \/ call.result.papers = <<>>
              \/ /\ Len(call.result.papers) = 1
                 /\ call.result.papers[1].doi = "fallback"

\* an error outside the try block of search_arxiv gave the fallback Paper
C27_Witness ==
    /\ call.op = "discovery" /\ call.upstream = "setup_error"
    /\ Len(call.result.papers) = 1 /\ call.result.papers[1].doi = "fallback"

\* C28 (as stated): update_workflow on a record that is completed or failed
\* leaves the record as it is, and create_workflow with the id of such a
\* record does not make it non-terminal again.
C28_Original ==
    [][/\ \A workflow_id \in Ids, kwargs \in CoordinatorUpdates,
           outcome \in DbOutcomes :
            (/\ workflow_id \in DOMAIN workflows
             /\ workflows[workflow_id].status \in Terminal
             /\ RegUpdate(workflow_id, kwargs, outcome))
              => workflows'[workflow_id] = workflows[workflow_id]
       /\ \A workflow_id \in JobIds, status \in {"pending", "processing"},
           now \in Times, outcome \in DbOutcomes :
            (/\ workflow_id \in DOMAIN workflows
             /\ workflows[workflow_id].status \in Terminal
             /\ RegCreate(workflow_id, status, now, outcome))
              => workflows'[workflow_id].status \in Terminal]_vars

\* C29: for every number of papers and every index of the loop, the
\* interpolated progress lies in [35, 70) for a search and in [30, 65) for an
\* upload, is not below the value for the index before, not below the
\* milestone written before the loop and not above the one written after it.
C29_LoopProgressInRange ==
    call.op = "progress" =>
        LET M == Milestone(call.kind)
        IN /\ call.result >= M.base /\ call.result < M.base + 35
           /\ M.base = (IF call.kind = "search" THEN 35 ELSE 30)
           /\ call.result >= M.analysis /\ call.result <= M.synth
           /\ M.synth = (IF call.kind = "search" THEN 75 ELSE 70)
           /\ call.i > 0 =>
                 paper_progress(call.kind, call.i - 1, call.total_papers)
                     <= call.result

\* the last paper of the largest job of an upload
C29_Witness ==
    /\ call.op = "progress" /\ call.kind = "upload"
    /\ call.total_papers = MaxTotal /\ call.i = MaxTotal - 1
    /\ call.result > 60

\* C30 (as stated): in every completed result payload the topics echoed in
\* summaries[k] are the topics the Classifier returned for paper k.
C30_Original ==
    \A id \in DOMAIN workflows :
        workflows[id].status = "completed" =>
            \A k \in 1..Len(workflows[id].results.summaries) :
                workflows[id].results.summaries[k].topics
                    = workflows[id].results.classifications[k]

\* C31 (as stated): the value get_workflow returned is a snapshot: while the
\* stream is suspended in the send, between reading the record and testing
\* its status, the record it holds has the field values it read.
C31_Original ==
    (ws.pc = "sending" /\ ws.text.kind = "snapshot") =>
        status_held(workflows, ws.id) = ws.text.body

\* C32: in every state a record goes through (after every create_workflow
\* and update_workflow call), a pending or processing record has no results
\* payload, a completed record has progress 100 and a results payload whose
\* own status is completed, and a failed record has progress 0.
C32_RecordShape ==
    \A id \in DOMAIN history : \A k \in 1..Len(history[id]) :
        LET r == history[id][k]
        IN /\ r.status \in NonTerminal => "results" \notin DOMAIN r
           /\ r.status = "completed" =>
                 /\ "results" \in DOMAIN r
                 /\ r.results.status = "completed"
                 /\ r.progress = 100
           /\ r.status = "failed" => r.progress = 0

\* a job with papers completed after milestones without a payload
C32_Witness ==
    \E id \in DOMAIN workflows :
        /\ workflows[id].status = "completed"
        /\ workflows[id].results.papers_processed > 0
        /\ \E k \in 1..Len(history[id]) :
              history[id][k].status = "processing" /\ history[id][k].progress = 98

\* C33 (as stated): whenever process_research_request_with_workflow has
\* returned normally for an existing workflow, with papers or without, the
\* record is completed and holds the result.
C33_Original ==
    \A j \in JobIds :
        (jobs[j].kind = "orch" /\ jobs[j].outcome = "returned") =>
            /\ has_workflow(workflows, j)
            /\ Record(j).status = "completed"
            /\ "results" \in DOMAIN Record(j)

\* C34: a message the stream sends after json.dumps(status) failed carries
\* the id, status, progress and message of a state the record was in and,
\* for a completed record, the number of papers of its results; and a stream
\* that has closed after such a message has sent it for a terminal record.
C34_ReducedSnapshot ==
    /\ \A k \in 1..Len(ws.sent) :
          ws.sent[k].kind = "reduced" =>
              LET b == ws.sent[k].body
              IN \E n \in 1..Len(history[ws.id]) :
                    LET r == history[ws.id][n]
                    IN /\ b.id = r.id /\ b.status = r.status
                       /\ b.progress = r.progress /\ b.message = r.message
                       /\ r.status = "completed" =>
                             /\ "results" \in DOMAIN b
                             /\ b.results.papers_processed = Len(r.results.papers)
    /\ (ws.pc = "closed" /\ ws.sent # <<>> /\ Last(ws.sent).kind = "reduced")
          => Last(ws.sent).body.status \in Terminal
    /\ (ws.pc \in {"sending", "sleep"} /\ ws.text.kind = "reduced")
          => ws.text.body.status \in Terminal

\* the stream sent a reduced snapshot of a completed record and closed
C34_Witness ==
    /\ ws.pc = "closed" /\ ws.sent # <<>>
    /\ Last(ws.sent).kind = "reduced"
    /\ Last(ws.sent).body.status = "completed"
    /\ Last(ws.sent).body.results.papers_processed > 0

\* C35 (as stated, second half): a stream closes only when the workflow it
\* is subscribed to does not exist or is terminal, never while the workflow
\* exists and is pending or processing.
C35_Original ==
    [][(ws.pc # "closed" /\ ws.pc' = "closed") =>
          ~(/\ has_workflow(workflows, ws.id)
            /\ get_workflow(workflows, ws.id).status \in NonTerminal)]_vars

C37_Original ==
    \A j \in JobIds :
        (jobs[j].kind = "search" /\ jobs[j].pc = "first") =>
            /\ DictGet(jobs[j].request, "search_query") # ""
            /\ DictGet(jobs[j].request, "search_query")
                  = search_query_or_query(jobs[j].request)

\* C38 (as stated): every text the Narrator passes to a single rendering
\* call is at most 5000 characters long, whatever the lengths of the words
\* of the synthesis text.
C38_Original ==
    call.op = "render" =>
        \A k \in 1..Len(call.result) : call.result[k] <= gtts_limit

====
